---- MODULE Spec2Model ----
(***************************************************************************)
(* Model of kuduraft's ConsensusMetadata (src/kudu/consensus/              *)
(* consensus_meta.cc): the in-memory mirror pb_ of the durable record, the *)
(* pending-config overlay, the leader uuid, the cached role, the           *)
(* removed-peers registry and the metadata file; of the per-peer message   *)
(* buffer (peer_message_buffer.cc): BufferData, the try-lock around it and *)
(* the handoff slot and promise of PeerMessageBuffer; and of the AtomicInt *)
(* operations exercised by atomic-test.cc.                                 *)
(***************************************************************************)
EXTENDS Integers, Sequences, FiniteSets, TLC

VARIABLES
  pb,                  \* pb_: the ConsensusMetadataPB mirrored in memory
  has_pending_config,  \* has_pending_config_
  pending_config,      \* pending_config_
  leader_uuid,         \* leader_uuid_
  active_role,         \* active_role_
  removed_peers,       \* removed_peers_ (deque, oldest first)
  flush_count,         \* flush_count_for_tests_
  on_disk_size,        \* on_disk_size_
  disk,                \* content of the metadata file, NoFile when absent
  meta_dir,            \* whether the consensus metadata directory exists
  op,                  \* name of the operation that returned last
  ret,                 \* status that operation returned
  msg_buffer_refs,     \* BufferData: ids of the staged messages, in order
  last_buffered,       \* BufferData::last_buffered
  preceding_opid,      \* BufferData::preceding_opid
  buffered_for_proxying,  \* BufferData::buffered_for_proxying
  bytes_buffered,      \* BufferData::bytes_buffered
  handles,             \* threads holding a valid LockedBufferHandle on data_
  handoff_initial_index_,  \* the atomic handoff slot
  proxy_ops_needed_,   \* proxy_ops_needed_
  handoff_promise_,    \* handoff_promise_: the request it serves, its value
  taken_index,         \* index the lock holder got from getIndexForHandoff
  consumer,            \* position of the consumer inside requestHandoff,
                       \* and what it did with the future it got
  aborted,             \* a DCHECK failed
  handed_off,          \* BufferData the last moveDataAndReset returned
  delivered,           \* indices handed off since the last discard
  takes,               \* getIndexForHandoff calls that returned an index
                       \* since the last exchange of requestHandoff
  caller,              \* thread that made the last buffer call
  atomic_i,            \* value of the AtomicInt
  atomic_b             \* value of the AtomicBool

cmeta == <<pb, has_pending_config, pending_config, leader_uuid, active_role,
           removed_peers, flush_count, on_disk_size>>

fs == <<disk, meta_dir>>

\* BufferData.
data_ == <<msg_buffer_refs, last_buffered, preceding_opid,
           buffered_for_proxying, bytes_buffered>>

\* PeerMessageBuffer around data_: the try-lock, the slot and the promise.
pmb == <<handles, handoff_initial_index_, proxy_ops_needed_,
         handoff_promise_>>

\* The threads that use the PeerMessageBuffer.
threads == <<taken_index, consumer, aborted>>

handoff == <<pmb, threads, handed_off, delivered, takes, caller>>

atomics == <<atomic_i, atomic_b>>

vars == <<cmeta, fs, op, ret, data_, handoff, atomics>>

-----------------------------------------------------------------------------
(* Bounds of the model.                                                    *)

MaxTerm == 3

MaxFlushCount == 2

(* Program constants declared outside consensus_meta.cc.                   *)

kMinimumTerm == 0

VOTE_HISTORY_MAX_SIZE == 2

max_removed_peers == 2

-----------------------------------------------------------------------------
(* Values.                                                                 *)

Terms == kMinimumTerm..MaxTerm

peer_uuid == "p1"

UUIDs == {"p1", "p2"}

Peer(u, t) == [permanent_uuid |-> u, member_type |-> t]

\* RaftConfigPB values: a config is its set of RaftPeerPB entries.
EmptyConfig == {}

CfgBoth == {Peer("p1", "VOTER"), Peer("p2", "VOTER")}

CfgSelf == {Peer("p1", "VOTER")}

CfgLearner == {Peer("p1", "NON_VOTER"), Peer("p2", "VOTER")}

CfgOther == {Peer("p2", "VOTER")}

CfgNoVoter == {Peer("p1", "NON_VOTER")}

Configs == {CfgBoth, CfgSelf, CfgLearner, CfgOther, CfgNoVoter}

NoFile == <<"NoFile">>

-----------------------------------------------------------------------------
(* Config predicates (quorum_util).                                        *)

IsRaftConfigMember(uuid, config) ==
  \E p \in config : p.permanent_uuid = uuid

IsRaftConfigVoter(uuid, config) ==
  \E p \in config : p.permanent_uuid = uuid /\ p.member_type = "VOTER"

\* Rejects duplicate uuids and configs without a voter.
VerifyRaftConfig(config) ==
  /\ \A p, q \in config : p.permanent_uuid = q.permanent_uuid => p = q
  /\ \E p \in config : p.member_type = "VOTER"

GetConsensusRole(self_uuid, leader, config) ==
  IF IsRaftConfigVoter(self_uuid, config)
    THEN IF self_uuid = leader THEN "LEADER"
         ELSE IF leader # "" THEN "FOLLOWER"
         ELSE "NON_PARTICIPANT"
    ELSE IF IsRaftConfigMember(self_uuid, config) THEN "LEARNER"
    ELSE "NON_PARTICIPANT"

-----------------------------------------------------------------------------
(* The record container (pb_util): a written file is the sequence of the   *)
(* fields that are present, each a <<tag, value>> pair; map entries are    *)
(* written one field per key.                                              *)

RECURSIVE SortedKeys(_)
SortedKeys(S) ==
  IF S = {} THEN << >>
  ELSE LET m == CHOOSE x \in S : \A y \in S : x <= y
       IN  <<m>> \o SortedKeys(S \ {m})

SerializePB(p) ==
  LET keys == SortedKeys(DOMAIN p.previous_vote_history)
  IN  << <<"committed_config", p.committed_config>>,
         <<"current_term", p.current_term>> >>
      \o (IF p.has_voted_for THEN << <<"voted_for", p.voted_for>> >> ELSE << >>)
      \o [i \in 1..Len(keys) |->
            <<"previous_vote_history", keys[i], p.previous_vote_history[keys[i]]>>]
      \o << <<"last_known_leader", p.last_known_leader>>,
            <<"last_pruned_term", p.last_pruned_term>> >>

FieldsOf(wire, tag) == {i \in 1..Len(wire) : wire[i][1] = tag}

FieldValue(wire, tag, default) ==
  IF FieldsOf(wire, tag) = {} THEN default
  ELSE wire[CHOOSE i \in FieldsOf(wire, tag) : TRUE][2]

ParsePB(wire) ==
  LET hist == FieldsOf(wire, "previous_vote_history")
      keys == {wire[i][2] : i \in hist}
  IN  [current_term |-> FieldValue(wire, "current_term", 0),
       has_voted_for |-> FieldsOf(wire, "voted_for") # {},
       voted_for |-> FieldValue(wire, "voted_for", ""),
       committed_config |-> FieldValue(wire, "committed_config", EmptyConfig),
       previous_vote_history |->
         [k \in keys |-> wire[CHOOSE i \in hist : wire[i][2] = k][3]],
       last_known_leader |->
         FieldValue(wire, "last_known_leader", [uuid |-> "", election_term |-> 0]),
       last_pruned_term |-> FieldValue(wire, "last_pruned_term", 0)]

WritePBContainerToPath(p, mode) ==
  IF mode = "NO_OVERWRITE" /\ disk # NoFile
    THEN [status |-> "AlreadyPresent", disk |-> disk]
    ELSE [status |-> "OK", disk |-> SerializePB(p)]

GetFileSize(file) == Len(file)

-----------------------------------------------------------------------------
(* ConsensusMetadata.                                                      *)

\* The constructor's pb_: last_known_leader {"", 0}, last_pruned_term -1.
NewPB ==
  [current_term |-> 0,
   has_voted_for |-> FALSE,
   voted_for |-> "",
   committed_config |-> EmptyConfig,
   previous_vote_history |-> << >>,
   last_known_leader |-> [uuid |-> "", election_term |-> 0],
   last_pruned_term |-> -1]

GetConfig(type) ==
  CASE type = "ACTIVE_CONFIG" ->
         IF has_pending_config THEN pending_config ELSE pb.committed_config
    [] type = "COMMITTED_CONFIG" -> pb.committed_config
    [] type = "PENDING_CONFIG" -> pending_config

ActiveConfig == GetConfig("ACTIVE_CONFIG")

IsMemberInConfig(uuid, type) == IsRaftConfigMember(uuid, GetConfig(type))

\* UpdateActiveRole over the values the fields have when it runs.
UpdateActiveRole(leader, has_pending, pending, committed) ==
  GetConsensusRole(peer_uuid, leader, IF has_pending THEN pending ELSE committed)

\* A ConsensusMetadata operation returns; it has no access to a peer buffer
\* or to the atomics.
Returns(name, status) ==
  /\ op' = name
  /\ ret' = status
  /\ UNCHANGED <<data_, handoff, atomics>>

set_current_term(term) ==
  /\ term >= kMinimumTerm
  /\ pb' = [pb EXCEPT !.current_term = term]
  /\ Returns("set_current_term", "OK")
  /\ UNCHANGED <<has_pending_config, pending_config, leader_uuid, active_role,
                 removed_peers, flush_count, on_disk_size, fs>>

clear_voted_for ==
  /\ pb' = [pb EXCEPT !.has_voted_for = FALSE, !.voted_for = ""]
  /\ Returns("clear_voted_for", "OK")
  /\ UNCHANGED <<has_pending_config, pending_config, leader_uuid, active_role,
                 removed_peers, flush_count, on_disk_size, fs>>

\* InsertIfNotPresent: an existing entry for the key is kept.
InsertIfNotPresent(m, key, value) ==
  [k \in DOMAIN m \cup {key} |-> IF k \in DOMAIN m THEN m[k] ELSE value]

RECURSIVE KeyOrders(_)
KeyOrders(S) ==
  IF S = {} THEN {<< >>}
  ELSE UNION {{<<x>> \o t : t \in KeyOrders(S \ {x})} : x \in S}

\* previous_vote_history is a google::protobuf::Map (lines 87, 97), a hash
\* map: begin()..end() visits the keys in an order the library leaves
\* unspecified, so every order of the keys is a possible iteration order.
IterationOrders(m) == KeyOrders(DOMAIN m)

\* Where the walk of step 1 (lines 99-104) stops: the number of leading
\* entries, in iteration order, whose key is <= last_known_leader_term.
StepOneEnd(order, last_known_leader_term) ==
  CHOOSE n \in 0..Len(order) :
    /\ \A i \in 1..n : order[i] <= last_known_leader_term
    /\ n = Len(order) \/ order[n + 1] > last_known_leader_term

\* Step 2 already prunes a history that is exactly full.
OverCapacityAtLimit(size) == size >= VOTE_HISTORY_MAX_SIZE

\* Step 2 tolerates one entry too many.
OverCapacityLate(size) == size > VOTE_HISTORY_MAX_SIZE + 1

\* The test of step 2 (line 113).
OverCapacity(size) == size > VOTE_HISTORY_MAX_SIZE

\* populate_previous_vote_history when the map iterates in the given order
\* (of the keys after the insertion).
PopulateInOrder(p, prev_vote, order) ==
  LET inserted == InsertIfNotPresent(p.previous_vote_history,
                                     prev_vote.election_term, prev_vote)
      last_known_leader_term == p.last_known_leader.election_term
      end_it == StepOneEnd(order, last_known_leader_term)
      erased == {order[i] : i \in 1..end_it}
      step1 == [k \in DOMAIN inserted \ erased |-> inserted[k]]
      pruned1 == IF end_it # 0 THEN order[end_it] ELSE p.last_pruned_term
  IN  IF OverCapacity(Cardinality(DOMAIN step1))
        THEN [p EXCEPT
                !.previous_vote_history =
                  [k \in DOMAIN step1 \ {order[end_it + 1]} |-> step1[k]],
                !.last_pruned_term = order[end_it + 1]]
        ELSE [p EXCEPT !.previous_vote_history = step1,
                       !.last_pruned_term = pruned1]

\* The results populate_previous_vote_history can produce.
populate_previous_vote_history(p, prev_vote) ==
  {PopulateInOrder(p, prev_vote, order) :
     order \in IterationOrders(InsertIfNotPresent(p.previous_vote_history,
                                                  prev_vote.election_term,
                                                  prev_vote))}

\* set_voted_for that writes the record to the metadata file.
set_voted_for_persisting(uuid) ==
  /\ uuid # ""
  /\ LET voted == [pb EXCEPT !.has_voted_for = TRUE, !.voted_for = uuid]
         prev_vote == [candidate_uuid |-> uuid,
                       election_term |-> pb.current_term]
     IN  pb' \in populate_previous_vote_history(voted, prev_vote)
  /\ disk' = SerializePB(pb')
  /\ on_disk_size' = GetFileSize(disk')
  /\ Returns("set_voted_for", "OK")
  /\ UNCHANGED <<has_pending_config, pending_config, leader_uuid, active_role,
                 removed_peers, flush_count, meta_dir>>

set_voted_for(uuid) ==
  /\ uuid # ""
  /\ LET voted == [pb EXCEPT !.has_voted_for = TRUE, !.voted_for = uuid]
         prev_vote == [candidate_uuid |-> uuid,
                       election_term |-> pb.current_term]
     IN  pb' \in populate_previous_vote_history(voted, prev_vote)
  /\ Returns("set_voted_for", "OK")
  /\ UNCHANGED <<has_pending_config, pending_config, leader_uuid, active_role,
                 removed_peers, flush_count, on_disk_size, fs>>

\* set_committed_config recomputes the role only under a pending config.
set_committed_config_pending_only(config) ==
  /\ pb' = [pb EXCEPT !.committed_config = config]
  /\ active_role' =
       IF has_pending_config
         THEN UpdateActiveRole(leader_uuid, has_pending_config, pending_config,
                               config)
         ELSE active_role
  /\ Returns("set_committed_config", "OK")
  /\ UNCHANGED <<has_pending_config, pending_config, leader_uuid,
                 removed_peers, flush_count, on_disk_size, fs>>

\* set_active_config writes the slot that is not the active one.
InactiveSlot(has_pending) == IF has_pending THEN "COMMITTED_CONFIG"
                             ELSE "PENDING_CONFIG"

set_committed_config(config) ==
  /\ pb' = [pb EXCEPT !.committed_config = config]
  /\ active_role' =
       IF ~has_pending_config
         THEN UpdateActiveRole(leader_uuid, has_pending_config, pending_config,
                               config)
         ELSE active_role
  /\ Returns("set_committed_config", "OK")
  /\ UNCHANGED <<has_pending_config, pending_config, leader_uuid,
                 removed_peers, flush_count, on_disk_size, fs>>

set_committed_config_raw(config) ==
  /\ pb' = [pb EXCEPT !.committed_config = config]
  /\ Returns("set_committed_config_raw", "OK")
  /\ UNCHANGED <<has_pending_config, pending_config, leader_uuid, active_role,
                 removed_peers, flush_count, on_disk_size, fs>>

clear_pending_config ==
  /\ has_pending_config' = FALSE
  /\ pending_config' = EmptyConfig
  /\ active_role' = UpdateActiveRole(leader_uuid, FALSE, EmptyConfig,
                                     pb.committed_config)
  /\ Returns("clear_pending_config", "OK")
  /\ UNCHANGED <<pb, leader_uuid, removed_peers, flush_count, on_disk_size, fs>>

set_pending_config(config) ==
  /\ has_pending_config' = TRUE
  /\ pending_config' = config
  /\ active_role' = UpdateActiveRole(leader_uuid, TRUE, config,
                                     pb.committed_config)
  /\ Returns("set_pending_config", "OK")
  /\ UNCHANGED <<pb, leader_uuid, removed_peers, flush_count, on_disk_size, fs>>

\* The slot set_active_config writes.
ActiveSlot(has_pending) == IF has_pending THEN "PENDING_CONFIG"
                           ELSE "COMMITTED_CONFIG"

set_active_config(config) ==
  /\ IF ActiveSlot(has_pending_config) = "PENDING_CONFIG"
       THEN /\ has_pending_config' = TRUE
            /\ pending_config' = config
            /\ pb' = pb
            /\ active_role' = UpdateActiveRole(leader_uuid, TRUE, config,
                                               pb.committed_config)
       ELSE /\ pb' = [pb EXCEPT !.committed_config = config]
            /\ active_role' =
                 IF ~has_pending_config
                   THEN UpdateActiveRole(leader_uuid, has_pending_config,
                                         pending_config, config)
                   ELSE active_role
            /\ UNCHANGED <<has_pending_config, pending_config>>
  /\ Returns("set_active_config", "OK")
  /\ UNCHANGED <<leader_uuid, removed_peers, flush_count, on_disk_size, fs>>

\* The leader is recorded in pb_ as soon as it is set.
set_leader_uuid_recording(uuid) ==
  /\ leader_uuid' = uuid
  /\ pb' = [pb EXCEPT !.last_known_leader =
                         [uuid |-> uuid, election_term |-> pb.current_term]]
  /\ active_role' = UpdateActiveRole(uuid, has_pending_config, pending_config,
                                     pb.committed_config)
  /\ Returns("set_leader_uuid", "OK")
  /\ UNCHANGED <<has_pending_config, pending_config, removed_peers,
                 flush_count, on_disk_size, fs>>

set_leader_uuid(uuid) ==
  /\ leader_uuid' = uuid
  /\ active_role' = UpdateActiveRole(uuid, has_pending_config, pending_config,
                                     pb.committed_config)
  /\ Returns("set_leader_uuid", "OK")
  /\ UNCHANGED <<pb, has_pending_config, pending_config, removed_peers,
                 flush_count, on_disk_size, fs>>

\* The result of the write is dropped: Flush reports OK after verification.
FlushOutcomeIgnoringWrite(p, flush_mode) ==
  IF ~VerifyRaftConfig(p.committed_config)
    THEN [status |-> "InvalidConfig", disk |-> disk, meta_dir |-> meta_dir]
    ELSE LET written == WritePBContainerToPath(p, IF flush_mode = "OVERWRITE"
                                                    THEN "OVERWRITE"
                                                    ELSE "NO_OVERWRITE")
         IN  [status |-> "OK", disk |-> written.disk, meta_dir |-> TRUE]

\* The record is written before the config is verified.
FlushOutcomeWriteFirst(p, flush_mode) ==
  LET written == WritePBContainerToPath(p, IF flush_mode = "OVERWRITE"
                                             THEN "OVERWRITE"
                                             ELSE "NO_OVERWRITE")
  IN  IF ~VerifyRaftConfig(p.committed_config)
        THEN [status |-> "InvalidConfig", disk |-> written.disk,
              meta_dir |-> TRUE]
        ELSE [status |-> written.status, disk |-> written.disk,
              meta_dir |-> TRUE]

\* What Flush does to the file system and what it returns, for the pb_ of
\* the object flushed: verification first, then the directory, then the write.
FlushOutcome(p, flush_mode) ==
  IF ~VerifyRaftConfig(p.committed_config)
    THEN [status |-> "InvalidConfig", disk |-> disk, meta_dir |-> meta_dir]
    ELSE LET written == WritePBContainerToPath(p, IF flush_mode = "OVERWRITE"
                                                    THEN "OVERWRITE"
                                                    ELSE "NO_OVERWRITE")
         IN  [status |-> written.status, disk |-> written.disk,
              meta_dir |-> TRUE]

\* UpdateOnDiskSize runs only after a successful write.
SizeAfterFlush(outcome, size) ==
  IF outcome.status = "OK" THEN GetFileSize(outcome.disk) ELSE size

\* fault_crash_before_cmeta_flush keeps its default 0.0 (line 45): MAYBE_FAULT
\* never fires.
Flush(flush_mode) ==
  /\ flush_count < MaxFlushCount
  /\ LET outcome == FlushOutcome(pb, flush_mode)
     IN  /\ flush_count' = flush_count + 1
         /\ disk' = outcome.disk
         /\ meta_dir' = outcome.meta_dir
         /\ on_disk_size' = SizeAfterFlush(outcome, on_disk_size)
         /\ Returns("Flush", outcome.status)
  /\ UNCHANGED <<pb, has_pending_config, pending_config, leader_uuid,
                 active_role, removed_peers>>

\* The sync without the comparison of cas_term with current_term.
sync_last_known_leader_any_term(cas_term) ==
  IF leader_uuid = ""
    THEN /\ Returns("sync_last_known_leader", "OK")
         /\ UNCHANGED <<cmeta, fs>>
  ELSE /\ flush_count < MaxFlushCount
       /\ pb' = [pb EXCEPT !.last_known_leader =
                              [uuid |-> leader_uuid,
                               election_term |-> pb.current_term]]
       /\ LET outcome == FlushOutcome(pb', "OVERWRITE")
          IN  /\ flush_count' = flush_count + 1
              /\ disk' = outcome.disk
              /\ meta_dir' = outcome.meta_dir
              /\ on_disk_size' = SizeAfterFlush(outcome, on_disk_size)
              /\ Returns("sync_last_known_leader", outcome.status)
       /\ UNCHANGED <<has_pending_config, pending_config, leader_uuid,
                      active_role, removed_peers>>

\* cas_term is an optional: the empty set is nullopt, {t} holds t.
sync_last_known_leader(cas_term) ==
  IF leader_uuid = ""
    THEN /\ Returns("sync_last_known_leader", "OK")
         /\ UNCHANGED <<cmeta, fs>>
  ELSE IF cas_term # {} /\ pb.current_term \notin cas_term
    THEN /\ Returns("sync_last_known_leader", "OK")
         /\ UNCHANGED <<cmeta, fs>>
  ELSE /\ flush_count < MaxFlushCount
       /\ pb' = [pb EXCEPT !.last_known_leader =
                              [uuid |-> leader_uuid,
                               election_term |-> pb.current_term]]
       /\ LET outcome == FlushOutcome(pb', "OVERWRITE")
          IN  /\ flush_count' = flush_count + 1
              /\ disk' = outcome.disk
              /\ meta_dir' = outcome.meta_dir
              /\ on_disk_size' = SizeAfterFlush(outcome, on_disk_size)
              /\ Returns("sync_last_known_leader", outcome.status)
       /\ UNCHANGED <<has_pending_config, pending_config, leader_uuid,
                      active_role, removed_peers>>

\* The merge raises the term and keeps the vote cast in the old term.
MergedTermKeepingVote(p, cstate) ==
  IF cstate.current_term > p.current_term
    THEN [p EXCEPT !.current_term = cstate.current_term]
    ELSE p

\* The merge adopts any remote term that differs from the local one.
MergedTermAnyRemote(p, cstate) ==
  IF cstate.current_term # p.current_term
    THEN [p EXCEPT !.current_term = cstate.current_term,
                   !.has_voted_for = FALSE, !.voted_for = ""]
    ELSE p

\* The term and vote MergeCommittedConsensusStatePB leaves in pb_.
MergedTerm(p, cstate) ==
  IF cstate.current_term > p.current_term
    THEN [p EXCEPT !.current_term = cstate.current_term,
                   !.has_voted_for = FALSE, !.voted_for = ""]
    ELSE p

MergeCommittedConsensusStatePB(cstate) ==
  /\ pb' = [MergedTerm(pb, cstate) EXCEPT
              !.committed_config = cstate.committed_config]
  /\ leader_uuid' = ""
  /\ has_pending_config' = FALSE
  /\ pending_config' = EmptyConfig
  /\ active_role' = UpdateActiveRole("", FALSE, EmptyConfig,
                                     cstate.committed_config)
  /\ Returns("MergeCommittedConsensusStatePB", "OK")
  /\ UNCHANGED <<removed_peers, flush_count, on_disk_size, fs>>

\* The object Create builds before it touches the disk.
Created(config, current_term) ==
  [NewPB EXCEPT !.committed_config = config, !.current_term = current_term]

\* Create flushes over an existing file.
CreateFlushModeClobbering == "OVERWRITE"

\* The write mode of the flush Create performs under FLUSH_ON_CREATE.
CreateFlushMode == "NO_OVERWRITE"

Create(config, current_term, create_mode) ==
  LET new_pb == Created(config, current_term)
      outcome == IF create_mode = "FLUSH_ON_CREATE"
                   THEN FlushOutcome(new_pb, CreateFlushMode)
                 ELSE IF disk # NoFile
                   THEN [status |-> "AlreadyPresent", disk |-> disk,
                         meta_dir |-> meta_dir]
                 ELSE [status |-> "OK", disk |-> disk, meta_dir |-> meta_dir]
  IN  /\ current_term >= kMinimumTerm
      /\ disk' = outcome.disk
      /\ meta_dir' = outcome.meta_dir
      /\ Returns("Create", outcome.status)
      /\ IF outcome.status = "OK"
           THEN /\ pb' = new_pb
                /\ has_pending_config' = FALSE
                /\ pending_config' = EmptyConfig
                /\ leader_uuid' = ""
                /\ active_role' = UpdateActiveRole("", FALSE, EmptyConfig, config)
                /\ removed_peers' = << >>
                /\ flush_count' = IF create_mode = "FLUSH_ON_CREATE" THEN 1 ELSE 0
                /\ on_disk_size' = IF create_mode = "FLUSH_ON_CREATE"
                                     THEN GetFileSize(outcome.disk) ELSE 0
           ELSE UNCHANGED cmeta

Load ==
  IF disk = NoFile
    THEN /\ Returns("Load", "NotFound")
         /\ UNCHANGED <<cmeta, fs>>
    ELSE /\ pb' = ParsePB(disk)
         /\ has_pending_config' = FALSE
         /\ pending_config' = EmptyConfig
         /\ leader_uuid' = ""
         /\ active_role' = UpdateActiveRole("", FALSE, EmptyConfig,
                                            pb'.committed_config)
         /\ removed_peers' = << >>
         /\ flush_count' = 0
         /\ on_disk_size' = GetFileSize(disk)
         /\ Returns("Load", "OK")
         /\ UNCHANGED fs

DeleteOnDiskData ==
  /\ IF disk = NoFile
       THEN /\ Returns("DeleteOnDiskData", "NotFound")
            /\ UNCHANGED disk
       ELSE /\ disk' = NoFile
            /\ Returns("DeleteOnDiskData", "OK")
  /\ UNCHANGED <<cmeta, meta_dir>>

-----------------------------------------------------------------------------
(* The removed-peers registry.                                             *)

\* The insertion without the check against the active config.
RECURSIVE InsertEachUnchecked(_, _, _)
InsertEachUnchecked(registry, uuids, config) ==
  IF uuids = << >> THEN registry
  ELSE LET uuid == Head(uuids)
           room == IF Len(registry) = max_removed_peers
                     THEN Tail(registry) ELSE registry
       IN  InsertEachUnchecked(Append(room, uuid), Tail(uuids), config)

\* The insertion that evicts only once the registry is over capacity.
RECURSIVE InsertEachLateEviction(_, _, _)
InsertEachLateEviction(registry, uuids, config) ==
  IF uuids = << >> THEN registry
  ELSE LET uuid == Head(uuids)
           room == IF Len(registry) > max_removed_peers
                     THEN Tail(registry) ELSE registry
       IN  InsertEachLateEviction(IF ~IsRaftConfigMember(uuid, config)
                                    THEN Append(room, uuid) ELSE registry,
                                  Tail(uuids), config)

RECURSIVE InsertEach(_, _, _)
InsertEach(registry, uuids, config) ==
  IF uuids = << >> THEN registry
  ELSE LET uuid == Head(uuids)
           room == IF Len(registry) = max_removed_peers
                     THEN Tail(registry) ELSE registry
       IN  InsertEach(IF ~IsRaftConfigMember(uuid, config)
                        THEN Append(room, uuid) ELSE registry,
                      Tail(uuids), config)

InsertIntoRemovedPeersList(uuids) ==
  /\ removed_peers' = InsertEach(removed_peers, uuids, ActiveConfig)
  /\ Returns("InsertIntoRemovedPeersList", "OK")
  /\ UNCHANGED <<pb, has_pending_config, pending_config, leader_uuid,
                 active_role, flush_count, on_disk_size, fs>>

\* The lookup without the check against the active config.
IsPeerRegistered(uuid) ==
  \E i \in 1..Len(removed_peers) : removed_peers[i] = uuid

IsPeerRemoved(uuid) ==
  IF IsMemberInConfig(uuid, "ACTIVE_CONFIG") THEN FALSE
  ELSE \E i \in 1..Len(removed_peers) : removed_peers[i] = uuid

EraseAll(registry, uuid) == SelectSeq(registry, LAMBDA x : x # uuid)

EraseFirst(registry, uuid) ==
  LET first == CHOOSE i \in 1..Len(registry) :
                 registry[i] = uuid /\ \A j \in 1..(i - 1) : registry[j] # uuid
  IN  SubSeq(registry, 1, first - 1) \o SubSeq(registry, first + 1, Len(registry))

\* The loop of lines 541-547 keeps using the iterator it passed to
\* deque::erase, which erase invalidates: once an entry was erased the rest
\* of the walk is undefined. The outcomes kept here are the walk carrying on
\* over the remaining entries and the walk ending after the first erasure.
DeleteOutcomes(registry, uuid) ==
  IF \A i \in 1..Len(registry) : registry[i] # uuid
    THEN {registry}
    ELSE {EraseAll(registry, uuid), EraseFirst(registry, uuid)}

DeleteFromRemovedPeersList(uuid) ==
  /\ removed_peers' \in DeleteOutcomes(removed_peers, uuid)
  /\ Returns("DeleteFromRemovedPeersList", "OK")
  /\ UNCHANGED <<pb, has_pending_config, pending_config, leader_uuid,
                 active_role, flush_count, on_disk_size, fs>>

ClearRemovedPeersList ==
  /\ removed_peers' = << >>
  /\ Returns("ClearRemovedPeersList", "OK")
  /\ UNCHANGED <<pb, has_pending_config, pending_config, leader_uuid,
                 active_role, flush_count, on_disk_size, fs>>

-----------------------------------------------------------------------------
(* The peer message buffer (peer_message_buffer.cc) and the atomics.       *)

Producers == {"t1", "t2"}

Consumer == "sender"

\* A default-constructed OpId.
NoOpId == [term |-> 0, index |-> 0]

\* A default-constructed BufferData, as a value.
NewBufferData ==
  [msg_buffer_refs |-> << >>, last_buffered |-> -1, preceding_opid |-> NoOpId,
   buffered_for_proxying |-> FALSE, bytes_buffered |-> 0]

\* The BufferData held in data_, as a value.
ThisBufferData ==
  [msg_buffer_refs |-> msg_buffer_refs, last_buffered |-> last_buffered,
   preceding_opid |-> preceding_opid,
   buffered_for_proxying |-> buffered_for_proxying,
   bytes_buffered |-> bytes_buffered]

InitBufferData ==
  /\ msg_buffer_refs = NewBufferData.msg_buffer_refs
  /\ last_buffered = NewBufferData.last_buffered
  /\ preceding_opid = NewBufferData.preceding_opid
  /\ buffered_for_proxying = NewBufferData.buffered_for_proxying
  /\ bytes_buffered = NewBufferData.bytes_buffered

\* A PeerMessageBuffer nobody has used yet.
InitPeerMessageBuffer ==
  /\ handles = {}
  /\ handoff_initial_index_ = -1
  /\ proxy_ops_needed_ = FALSE
  /\ handoff_promise_ = [request |-> 0, satisfied |-> FALSE, status |-> ""]
  /\ taken_index = -1
  /\ consumer = [pc |-> "idle", index |-> -1, overlapping |-> FALSE,
                 future |-> "none"]
  /\ aborted = FALSE
  /\ handed_off = NewBufferData
  /\ delivered = << >>
  /\ takes = 0
  /\ caller = Consumer

\* AtomicInt i(0) and AtomicBool b(false).
InitAtomics ==
  /\ atomic_i = 0
  /\ atomic_b = FALSE

-----------------------------------------------------------------------------
(* Specifications.                                                         *)

\* The object Create(config, term, NO_FLUSH_ON_CREATE) returns on an empty
\* directory.
InitCreated(config, term) ==
  /\ pb = Created(config, term)
  /\ has_pending_config = FALSE
  /\ pending_config = EmptyConfig
  /\ leader_uuid = ""
  /\ active_role = UpdateActiveRole("", FALSE, EmptyConfig, config)
  /\ removed_peers = << >>
  /\ flush_count = 0
  /\ on_disk_size = 0
  /\ disk = NoFile
  /\ meta_dir = FALSE
  /\ op = "Create"
  /\ ret = "OK"
  /\ InitBufferData
  /\ InitPeerMessageBuffer
  /\ InitAtomics

CasTerms == {{}} \cup {{t} : t \in Terms}

\* Term, vote, vote history and last known leader. The group is created
\* without a flush over a config that has no voter, which Create accepts
\* unverified: every Flush then fails verification and leaves the disk
\* alone, so the in-memory record is explored over all call sequences.
InitVote == InitCreated(CfgNoVoter, kMinimumTerm)

NextVote ==
  \/ \E term \in Terms : set_current_term(term)
  \/ \E uuid \in UUIDs : set_voted_for(uuid)
  \/ clear_voted_for
  \/ \E uuid \in {"", "p2"} : set_leader_uuid(uuid)
  \/ \E cas_term \in CasTerms : sync_last_known_leader(cas_term)
  \/ \E term \in Terms :
       MergeCommittedConsensusStatePB([current_term |-> term,
                                       committed_config |-> CfgNoVoter])
  \/ Flush("OVERWRITE")

SpecVote == InitVote /\ [][NextVote]_vars

History == pb.previous_vote_history

\* The term, vote, config, leader, merge and flush operations together, over
\* one candidate and the config the group was created with.
NextTerm ==
  \/ \E term \in Terms : set_current_term(term)
  \/ set_voted_for("p2")
  \/ clear_voted_for
  \/ set_committed_config(CfgNoVoter)
  \/ set_committed_config_raw(CfgNoVoter)
  \/ set_pending_config(CfgNoVoter)
  \/ clear_pending_config
  \/ set_active_config(CfgNoVoter)
  \/ \E uuid \in {"", "p2"} : set_leader_uuid(uuid)
  \/ \E cas_term \in CasTerms : sync_last_known_leader(cas_term)
  \/ \E term \in Terms :
       MergeCommittedConsensusStatePB([current_term |-> term,
                                       committed_config |-> CfgNoVoter])
  \/ Flush("OVERWRITE")

SpecTerm == InitVote /\ [][NextTerm]_vars

-----------------------------------------------------------------------------
(* C1: across any sequence of ConsensusMetadata operations the value of    *)
(* current_term never becomes smaller than a value it had earlier.         *)
C1_TermNeverDecreases ==
  [][pb'.current_term >= pb.current_term]_vars

(* C1 as amended: only set_current_term lowers current_term; the merge     *)
(* never lowers it and every other operation leaves it unchanged.          *)
C1_OnlySetTermLowers ==
  [][/\ op' # "set_current_term" => pb'.current_term >= pb.current_term
     /\ op' \notin {"set_current_term", "MergeCommittedConsensusStatePB"}
          => pb'.current_term = pb.current_term]_vars

C1_Witness ==
  /\ op = "MergeCommittedConsensusStatePB"
  /\ pb.current_term > kMinimumTerm
  /\ ~pb.has_voted_for
  /\ History # << >>

(* C2: in every reachable state, has_voted_for implies that the vote       *)
(* history holds an entry keyed by current_term whose candidate_uuid is    *)
(* voted_for.                                                              *)
C2_VoteInHistory ==
  pb.has_voted_for =>
    /\ pb.current_term \in DOMAIN History
    /\ History[pb.current_term].candidate_uuid = pb.voted_for

(* C2 as amended: when set_voted_for returns the vote is set, and the      *)
(* history holds current_term -> uuid provided that before the call it     *)
(* held no entry for current_term, current_term was above the last known   *)
(* leader's term and fewer than VOTE_HISTORY_MAX_SIZE entries were held.   *)
C2_VoteRecordedBySetVotedFor ==
  [][op' = "set_voted_for" =>
       /\ pb'.has_voted_for
       /\ pb'.voted_for # ""
       /\ (/\ pb.current_term \notin DOMAIN History
           /\ pb.current_term > pb.last_known_leader.election_term
           /\ Cardinality(DOMAIN History) < VOTE_HISTORY_MAX_SIZE)
          => /\ pb'.current_term \in DOMAIN History'
             /\ History'[pb'.current_term] =
                  [candidate_uuid |-> pb'.voted_for,
                   election_term |-> pb'.current_term]]_vars

C2_Witness ==
  /\ op = "set_voted_for"
  /\ pb.has_voted_for
  /\ pb.current_term > pb.last_known_leader.election_term
  /\ pb.current_term \in DOMAIN History
  /\ History[pb.current_term].candidate_uuid = pb.voted_for
  /\ Cardinality(DOMAIN History) = VOTE_HISTORY_MAX_SIZE

(* C3: from a freshly constructed object, after any sequence of            *)
(* set_current_term, set_voted_for, clear_voted_for and                    *)
(* sync_last_known_leader calls the vote history holds at most             *)
(* VOTE_HISTORY_MAX_SIZE entries.                                          *)
C3_HistoryBounded ==
  Cardinality(DOMAIN History) <= VOTE_HISTORY_MAX_SIZE

\* A full history whose last eviction was one for capacity: the evicted key
\* is above the last known leader's term.
C3_Witness ==
  /\ op = "set_voted_for"
  /\ Cardinality(DOMAIN History) = VOTE_HISTORY_MAX_SIZE
  /\ pb.last_pruned_term > pb.last_known_leader.election_term

(* C4: in every reachable state the vote history holds no key less than or *)
(* equal to last_known_leader.term.                                        *)
C4_NoKeyUpToLeaderTerm ==
  \A k \in DOMAIN History : k > pb.last_known_leader.election_term

\* The keys a call of set_voted_for erased: those of the history with the
\* key of the vote added that the history no longer holds.
ErasedKeys == (DOMAIN History \cup {pb.current_term}) \ DOMAIN History'

(* C21: when set_voted_for returns, every history key <=                   *)
(* last_known_leader.term has been erased, at most one further entry, the  *)
(* one with the smallest key, has been erased for capacity, and            *)
(* last_pruned_term is the largest key the call erased (unchanged if it    *)
(* erased none).                                                           *)
C21_SetVotedForPrunes ==
  [][op' = "set_voted_for" =>
       LET last_known_leader_term == pb.last_known_leader.election_term
           further == {k \in ErasedKeys : k > last_known_leader_term}
       IN  /\ \A k \in DOMAIN History' : k > last_known_leader_term
           /\ Cardinality(further) <= 1
           /\ \A k \in further : \A j \in DOMAIN History' : k < j
           /\ pb'.last_pruned_term =
                IF ErasedKeys = {} THEN pb.last_pruned_term
                ELSE CHOOSE k \in ErasedKeys : \A j \in ErasedKeys : j <= k]_vars

(* C22: last_pruned_term never decreases, and every key that remains in    *)
(* previous_vote_history is strictly greater than last_pruned_term.        *)
C22_LastPrunedTermHighest ==
  [][/\ pb'.last_pruned_term >= pb.last_pruned_term
     /\ \A k \in DOMAIN History' : k > pb'.last_pruned_term]_vars

-----------------------------------------------------------------------------
\* Configs, leader and role, with Create and Load returning new objects.
InitRole == InitCreated(CfgBoth, kMinimumTerm)

CreateModes == {"FLUSH_ON_CREATE", "NO_FLUSH_ON_CREATE"}

NextRole ==
  \/ \E config \in Configs : set_committed_config(config)
  \/ \E config \in Configs : set_committed_config_raw(config)
  \/ \E config \in Configs : set_pending_config(config)
  \/ clear_pending_config
  \/ \E config \in Configs : set_active_config(config)
  \/ \E uuid \in UUIDs \cup {""} : set_leader_uuid(uuid)
  \/ \E term \in Terms, config \in Configs :
       MergeCommittedConsensusStatePB([current_term |-> term,
                                       committed_config |-> config])
  \/ \E config \in Configs, mode \in CreateModes :
       Create(config, kMinimumTerm, mode)
  \/ Load
  \/ DeleteOnDiskData

SpecRole == InitRole /\ [][NextRole]_vars

(* C5: the active config is the pending config when one is set and the     *)
(* committed config otherwise; set_active_config(cfg) makes the active     *)
(* config cfg, writing the pending slot if a pending config existed and    *)
(* the committed slot if not, the other slot and has_pending_config        *)
(* unchanged.                                                              *)
C5_ActiveConfigOverlay ==
  [][/\ ActiveConfig' = IF has_pending_config' THEN pending_config'
                         ELSE pb'.committed_config
     /\ \A config \in Configs :
       set_active_config(config) =>
         /\ ActiveConfig' = config
         /\ has_pending_config' = has_pending_config
         /\ IF has_pending_config
              THEN /\ pending_config' = config
                   /\ pb'.committed_config = pb.committed_config
              ELSE /\ pb'.committed_config = config
                   /\ pending_config' = pending_config]_vars

C5_Witness ==
  /\ op = "set_active_config"
  /\ has_pending_config
  /\ ActiveConfig = pending_config
  /\ pending_config # pb.committed_config

RoleDerived ==
  active_role = GetConsensusRole(peer_uuid, leader_uuid, ActiveConfig)

\* Create and Load return an object only with status OK; the other mutators
\* return nothing and are recorded as OK.
RoleMutators ==
  {"set_committed_config", "set_pending_config", "clear_pending_config",
   "set_active_config", "set_leader_uuid", "MergeCommittedConsensusStatePB",
   "Create", "Load"}

(* C6: after every mutation returns, set_committed_config_raw included,    *)
(* the cached active_role equals                                           *)
(* compute_role(peer_uuid, leader_uuid, active_config).                    *)
C6_RoleAfterEveryMutation ==
  op \in RoleMutators \cup {"set_committed_config_raw"} /\ ret = "OK"
    => RoleDerived

(* C6 as amended: after every mutation other than set_committed_config_raw *)
(* returns, the cached active_role equals                                  *)
(* compute_role(peer_uuid, leader_uuid, active_config).                    *)
C6_RoleAfterMutation ==
  op \in RoleMutators /\ ret = "OK" => RoleDerived

C6_Witness ==
  /\ op = "set_committed_config"
  /\ has_pending_config
  /\ active_role = "LEADER"
  /\ ~IsRaftConfigVoter(peer_uuid, pb.committed_config)

-----------------------------------------------------------------------------
\* The removed-peers registry under config changes.
InitRemoved == InitCreated(CfgSelf, kMinimumTerm)

UUIDLists == {<<u>> : u \in UUIDs} \cup {<<u, v>> : u \in UUIDs, v \in UUIDs}

NextRemoved ==
  \/ \E uuids \in UUIDLists : InsertIntoRemovedPeersList(uuids)
  \/ \E uuid \in UUIDs : DeleteFromRemovedPeersList(uuid)
  \/ ClearRemovedPeersList
  \/ \E config \in Configs : set_committed_config(config)
  \/ \E config \in Configs : set_pending_config(config)
  \/ clear_pending_config
  \/ \E config \in Configs :
       MergeCommittedConsensusStatePB([current_term |-> kMinimumTerm,
                                       committed_config |-> config])

SpecRemoved == InitRemoved /\ [][NextRemoved]_vars

Registered(registry) == {registry[i] : i \in 1..Len(registry)}

Occurrences(registry, uuid) ==
  Cardinality({i \in 1..Len(registry) : registry[i] = uuid})

(* C7: in every reachable state no member of the active config is in the   *)
(* removed_peers registry.                                                 *)
C7_NoActiveMemberRegistered ==
  \A uuid \in Registered(removed_peers) :
    ~IsRaftConfigMember(uuid, ActiveConfig)

(* C7 as amended: insert_removed never adds a UUID that is a member of the *)
(* active config at the time of the call.                                  *)
C7_InsertSkipsActiveMembers ==
  [][op' = "InsertIntoRemovedPeersList" =>
       \A uuid \in UUIDs :
         IsRaftConfigMember(uuid, ActiveConfig) =>
           Occurrences(removed_peers', uuid) <= Occurrences(removed_peers, uuid)]_vars

C7_Witness ==
  /\ op = "InsertIntoRemovedPeersList"
  /\ removed_peers # << >>
  /\ \E uuid \in UUIDs :
       /\ IsRaftConfigMember(uuid, ActiveConfig)
       /\ uuid \notin Registered(removed_peers)

(* C8: for every UUID and every reachable state, is_peer_removed(uuid)     *)
(* returning true implies that uuid is not a member of the active config.  *)
C8_RemovedImpliesNotMember ==
  \A uuid \in UUIDs :
    IsPeerRemoved(uuid) => ~IsMemberInConfig(uuid, "ACTIVE_CONFIG")

\* One registered uuid is reported removed while another registered uuid is
\* a member of the active config again.
C8_Witness ==
  /\ \E uuid \in UUIDs : IsPeerRemoved(uuid)
  /\ \E uuid \in Registered(removed_peers) :
       IsMemberInConfig(uuid, "ACTIVE_CONFIG")

\* The last n entries of a sequence.
LastN(seq, n) ==
  IF Len(seq) <= n THEN seq ELSE SubSeq(seq, Len(seq) - n + 1, Len(seq))

(* C25: the registry never holds more than MAX_REMOVED_PEERS entries, and  *)
(* after insert_removed it holds, in insertion order, the most recent      *)
(* MAX_REMOVED_PEERS of its earlier entries followed by the inserted UUIDs *)
(* that were not members of the active config.                             *)
C25_RegistryKeepsMostRecent ==
  [][/\ Len(removed_peers') <= max_removed_peers
     /\ \A uuids \in UUIDLists :
          InsertIntoRemovedPeersList(uuids)
            => removed_peers' =
                 LastN(removed_peers
                         \o SelectSeq(uuids,
                              LAMBDA u : ~IsRaftConfigMember(u, ActiveConfig)),
                       max_removed_peers)]_vars

\* An insertion filled the registry with two different uuids while the
\* active config has a member.
C25_Witness ==
  /\ op = "InsertIntoRemovedPeersList"
  /\ Len(removed_peers) = max_removed_peers
  /\ removed_peers[1] # removed_peers[Len(removed_peers)]
  /\ \E uuid \in UUIDs : IsRaftConfigMember(uuid, ActiveConfig)

-----------------------------------------------------------------------------
\* The metadata file: Create, Flush, Load and DeleteOnDiskData around the
\* mutators of the persisted fields. The term of an object is the one it
\* was created or loaded with.
InitDisk == InitCreated(CfgBoth, kMinimumTerm)

DiskConfigs == {CfgBoth, CfgNoVoter}

FlushModes == {"OVERWRITE", "NO_OVERWRITE"}

NextDisk ==
  \/ \E config \in DiskConfigs, term \in Terms, mode \in CreateModes :
       Create(config, term, mode)
  \/ Load
  \/ \E mode \in FlushModes : Flush(mode)
  \/ DeleteOnDiskData
  \/ \E uuid \in UUIDs : set_voted_for(uuid)
  \/ clear_voted_for
  \/ \E config \in DiskConfigs : set_committed_config(config)
  \/ set_leader_uuid("p2")
  \/ \E cas_term \in CasTerms : sync_last_known_leader(cas_term)

SpecDisk == InitDisk /\ [][NextDisk]_vars

(* C9: after a successful flush, a load of the same group yields an object *)
(* whose persisted fields equal the in-memory values immediately before    *)
(* the flush; create(term, cfg, FLUSH_ON_CREATE) followed by load returns  *)
(* that term and cfg, no voted_for and last_pruned_term = -1.              *)
C9_FlushLoadRoundTrip ==
  [][/\ op' = "Flush" => pb' = pb
     /\ op = "Flush" /\ ret = "OK" /\ op' = "Load"
          => ret' = "OK" /\ pb' = pb /\ on_disk_size' = on_disk_size
     /\ \A config \in DiskConfigs, term \in Terms :
          Create(config, term, "FLUSH_ON_CREATE") /\ ret' = "OK"
            => /\ pb'.current_term = term
               /\ pb'.committed_config = config
               /\ ~pb'.has_voted_for
               /\ pb'.last_pruned_term = -1
     /\ op = "Create" /\ ret = "OK" /\ flush_count = 1 /\ op' = "Load"
          => ret' = "OK" /\ pb' = pb]_vars

\* An object loaded right after a flush that wrote a vote, a history entry
\* and a last known leader.
C9_Witness ==
  /\ op = "Load"
  /\ ret = "OK"
  /\ pb.has_voted_for
  /\ History # << >>
  /\ pb.last_known_leader.uuid # ""
  /\ ParsePB(disk) = pb

(* C10: when the metadata file already exists Create fails in both modes,  *)
(* returns no object and leaves the on-disk record unchanged.              *)
C10_CreateNeverClobbers ==
  [][disk # NoFile /\ op' = "Create" =>
       /\ ret' # "OK"
       /\ disk' = disk
       /\ UNCHANGED cmeta]_vars

C10_Witness ==
  /\ op = "Create"
  /\ ret = "AlreadyPresent"
  /\ disk # NoFile
  /\ ParsePB(disk) # pb

-----------------------------------------------------------------------------
\* The last_known_leader of the record stored in the metadata file.
DiskLastKnownLeader(file) == ParsePB(file).last_known_leader

(* C11: the last_known_leader stored on disk changes only during a call to *)
(* sync_last_known_leader; set_leader_uuid, every other mutator and a      *)
(* direct flush never change it.                                           *)
C11_DiskLeaderOnlyBySync ==
  [][(/\ disk # NoFile
      /\ disk' # NoFile
      /\ DiskLastKnownLeader(disk') # DiskLastKnownLeader(disk))
       => op' = "sync_last_known_leader"]_vars

(* C11 as amended: only sync_last_known_leader writes last_known_leader in *)
(* memory (Create and Load build a new object), only the sync, Flush,      *)
(* Create and DeleteOnDiskData touch the file, and a flush that changes    *)
(* the stored last_known_leader stores the in-memory one, which differed   *)
(* from the file because the flush of an earlier sync failed or the file   *)
(* was replaced.                                                           *)
C11_DiskLeaderFromSync ==
  [][/\ pb'.last_known_leader # pb.last_known_leader
          => op' \in {"sync_last_known_leader", "Create", "Load"}
     /\ disk' # disk
          => op' \in {"sync_last_known_leader", "Flush", "Create",
                      "DeleteOnDiskData"}
     /\ (/\ op' = "Flush"
         /\ disk # NoFile
         /\ disk' # NoFile
         /\ DiskLastKnownLeader(disk') # DiskLastKnownLeader(disk))
          => /\ DiskLastKnownLeader(disk') = pb.last_known_leader
             /\ pb.last_known_leader # DiskLastKnownLeader(disk)]_vars

\* The flush of a sync failed: the file holds the older last_known_leader.
C11_Witness ==
  /\ op = "sync_last_known_leader"
  /\ ret = "InvalidConfig"
  /\ disk # NoFile
  /\ pb.last_known_leader.uuid = "p2"
  /\ DiskLastKnownLeader(disk).uuid = ""

-----------------------------------------------------------------------------
\* Term, vote, leader and configs under the merge, without the disk.
InitMerge == InitCreated(CfgBoth, kMinimumTerm)

MergeConfigs == {CfgBoth, CfgLearner}

NextMerge ==
  \/ \E term \in Terms : set_current_term(term)
  \/ set_voted_for("p2")
  \/ clear_voted_for
  \/ \E uuid \in {"", "p2"} : set_leader_uuid(uuid)
  \/ set_pending_config(CfgSelf)
  \/ \E term \in Terms, config \in MergeConfigs :
       MergeCommittedConsensusStatePB([current_term |-> term,
                                       committed_config |-> config])

SpecMerge == InitMerge /\ [][NextMerge]_vars

(* C12: merge_committed_state(remote) raises current_term to remote.term   *)
(* and clears voted_for if remote.term > current_term, and leaves both     *)
(* unchanged otherwise; in both cases leader_uuid is empty afterwards,     *)
(* committed_config equals remote.committed_config and no pending config   *)
(* is set.                                                                 *)
C12_MergeCommittedState ==
  [][\A term \in Terms, config \in MergeConfigs :
       MergeCommittedConsensusStatePB([current_term |-> term,
                                       committed_config |-> config])
         => /\ IF term > pb.current_term
                 THEN /\ pb'.current_term = term
                      /\ ~pb'.has_voted_for
                 ELSE /\ pb'.current_term = pb.current_term
                      /\ pb'.has_voted_for = pb.has_voted_for
                      /\ pb'.voted_for = pb.voted_for
            /\ leader_uuid' = ""
            /\ pb'.committed_config = config
            /\ ~has_pending_config']_vars

\* A merge raised the term over a vote cast in term 1, and replaced the
\* committed config.
C12_Witness ==
  /\ op = "MergeCommittedConsensusStatePB"
  /\ pb.current_term = 2
  /\ 1 \in DOMAIN History
  /\ ~pb.has_voted_for
  /\ pb.committed_config = CfgLearner
  /\ leader_uuid = ""
  /\ ~has_pending_config

-----------------------------------------------------------------------------
(* C20: sync_last_known_leader returns OK and changes nothing in memory,   *)
(* on disk or in flush_count when leader_uuid is empty or a supplied       *)
(* cas_term differs from current_term; otherwise it sets last_known_leader *)
(* to {leader_uuid, current_term} and performs exactly one flush.          *)
C20_SyncLastKnownLeader ==
  [][\A cas_term \in CasTerms :
       sync_last_known_leader(cas_term)
         => IF leader_uuid = ""
                 \/ (cas_term # {} /\ pb.current_term \notin cas_term)
              THEN /\ ret' = "OK"
                   /\ UNCHANGED <<cmeta, fs>>
              ELSE /\ pb'.last_known_leader =
                        [uuid |-> leader_uuid,
                         election_term |-> pb.current_term]
                   /\ flush_count' = flush_count + 1
                   /\ ret' = "OK" => /\ disk' # NoFile
                                     /\ ParsePB(disk') = pb']_vars

\* A sync persisted the leader of term 1.
C20_Witness ==
  /\ op = "sync_last_known_leader"
  /\ ret = "OK"
  /\ flush_count = 1
  /\ pb.last_known_leader = [uuid |-> "p2", election_term |-> 1]
  /\ disk # NoFile
  /\ DiskLastKnownLeader(disk) = [uuid |-> "p2", election_term |-> 1]

-----------------------------------------------------------------------------
(* C23: when verification of the committed config fails, flush returns the *)
(* invalid-config error and leaves the on-disk record, the metadata        *)
(* directory and on_disk_size as they were.                                *)
C23_FlushVerifiesFirst ==
  [][\A mode \in FlushModes :
       (Flush(mode) /\ ~VerifyRaftConfig(pb.committed_config))
         => /\ ret' = "InvalidConfig"
            /\ UNCHANGED <<disk, meta_dir, on_disk_size>>]_vars

\* A flush was refused while the file holds a record with another config.
C23_Witness ==
  /\ op = "Flush"
  /\ ret = "InvalidConfig"
  /\ disk # NoFile
  /\ ParsePB(disk).committed_config # pb.committed_config
  /\ on_disk_size = GetFileSize(disk)

-----------------------------------------------------------------------------
\* Every mutator of a flushed group, beside Flush and the sync.
InitFrame == InitCreated(CfgBoth, kMinimumTerm)

NextFrame ==
  \/ set_current_term(1)
  \/ set_voted_for("p2")
  \/ clear_voted_for
  \/ set_committed_config(CfgNoVoter)
  \/ set_pending_config(CfgSelf)
  \/ clear_pending_config
  \/ set_active_config(CfgBoth)
  \/ set_leader_uuid("p2")
  \/ MergeCommittedConsensusStatePB([current_term |-> 1,
                                     committed_config |-> CfgBoth])
  \/ InsertIntoRemovedPeersList(<<"p2">>)
  \/ DeleteFromRemovedPeersList("p2")
  \/ ClearRemovedPeersList
  \/ Flush("OVERWRITE")
  \/ sync_last_known_leader({})

SpecFrame == InitFrame /\ [][NextFrame]_vars

\* The operations that change the object in memory only.
Mutators ==
  {"set_current_term", "set_voted_for", "clear_voted_for",
   "set_committed_config", "set_pending_config", "clear_pending_config",
   "set_active_config", "set_leader_uuid", "MergeCommittedConsensusStatePB",
   "InsertIntoRemovedPeersList", "DeleteFromRemovedPeersList",
   "ClearRemovedPeersList"}

(* C24: every mutator other than flush and sync_last_known_leader leaves   *)
(* the on-disk record, on_disk_size and flush_count unchanged.             *)
C24_MutatorsDoNotPersist ==
  [][op' \in Mutators => UNCHANGED <<disk, on_disk_size, flush_count>>]_vars

\* A vote was cast after a flush: the file still holds the record without it.
C24_Witness ==
  /\ op = "set_voted_for"
  /\ disk # NoFile
  /\ pb.has_voted_for
  /\ ~ParsePB(disk).has_voted_for
  /\ flush_count > 0

-----------------------------------------------------------------------------
(* BufferData (peer_message_buffer.cc).                                    *)

\* Highest index of the log the messages are taken from.
MaxIndex == 3

FLAGS_max_buffer_fill_size_bytes == 2097152

FLAGS_consensus_max_batch_size_bytes == 1048576

\* Encoded size of every message of the log.
MessageBytes == 524288

Min(a, b) == IF a < b THEN a ELSE b

Max(a, b) == IF a > b THEN a ELSE b

\* The id of the log entry at an index; index 0 precedes the first entry.
OpId(index) == [term |-> IF index = 0 THEN 0 ELSE 1, index |-> index]

\* A ReplicateRefPtr is the empty set (nullptr) or holds one message, which
\* is modelled by its id.
nullptr == {}

ReplicateRefPtrs == {nullptr} \cup {{OpId(i)} : i \in 1..MaxIndex}

Indexes(messages) == [i \in 1..Len(messages) |-> messages[i].index]

resetBuffer(d, for_proxy, last_index) ==
  [msg_buffer_refs |-> << >>, last_buffered |-> last_index,
   preceding_opid |-> NoOpId, buffered_for_proxying |-> for_proxy,
   bytes_buffered |-> 0]

\* The append accepts every index above last_buffered.
AboveBuffer(d, message_index) == message_index > d.last_buffered

\* The test of line 36 passes.
MatchesBuffer(d, message_index) == message_index = d.last_buffered + 1

\* The status appendMessage returns and the BufferData it leaves.
appendMessage(d, new_message) ==
  IF new_message = nullptr
    THEN [status |-> "InvalidArgument", data |-> d]
  ELSE LET id == CHOOSE m \in new_message : TRUE
       IN  IF ~MatchesBuffer(d, id.index)
             THEN [status |-> "IllegalState", data |-> d]
             ELSE [status |-> "OK",
                   data |-> [d EXCEPT
                     !.last_buffered = id.index,
                     !.preceding_opid =
                        IF d.msg_buffer_refs = << >> THEN id ELSE @,
                     !.msg_buffer_refs = Append(@, id)]]

\* LogCache::ReadOps(after_op_index, max_size_bytes, ...): the results the
\* cache can give. OK reads the entries that follow after_op_index, at least
\* one if there is one and no more than fit max_size_bytes; Incomplete and
\* NotFound read nothing.
ReadOps(after_op_index, max_size_bytes) ==
  LET available == IF after_op_index \in 0..MaxIndex
                     THEN MaxIndex - after_op_index ELSE 0
      fitting == Max(1, max_size_bytes \div MessageBytes)
      counts == IF available = 0 THEN {0} ELSE 1..Min(available, fitting)
  IN  {[status |-> "OK",
        messages |-> [i \in 1..k |-> OpId(after_op_index + i)],
        preceding_op |-> OpId(after_op_index),
        stopped_early |-> k < available] :
          k \in IF after_op_index \in 0..MaxIndex THEN counts ELSE {}}
      \cup
      {[status |-> st, messages |-> << >>, preceding_op |-> NoOpId,
        stopped_early |-> FALSE] : st \in {"Incomplete", "NotFound"}}

fill_size(d) ==
  Min(FLAGS_max_buffer_fill_size_bytes,
      Max(FLAGS_consensus_max_batch_size_bytes - d.bytes_buffered, 0))

\* readFromCache that resets the buffer on every status other than OK.
readFromCacheResettingOnError(d, route_via_proxy, s) ==
  LET buffer_empty == d.msg_buffer_refs = << >>
      read == d.msg_buffer_refs \o s.messages
  IN  IF s.status = "OK"
        THEN [status |-> IF s.stopped_early THEN "Continue" ELSE "OK",
              data |-> [d EXCEPT
                !.msg_buffer_refs = read,
                !.last_buffered =
                   IF read # << >> THEN read[Len(read)].index ELSE @,
                !.buffered_for_proxying =
                   IF read # << >> THEN route_via_proxy ELSE @,
                !.preceding_opid =
                   IF buffer_empty THEN s.preceding_op ELSE @]]
        ELSE [status |-> s.status, data |-> resetBuffer(d, FALSE, -1)]

\* readFromCache after ReadOps returned s: the status and the BufferData.
\* resetBuffer() of line 79 takes its default arguments (false, -1).
readFromCacheGiven(d, route_via_proxy, s) ==
  LET buffer_empty == d.msg_buffer_refs = << >>
      read == d.msg_buffer_refs \o s.messages
  IN  IF s.status = "OK"
        THEN [status |-> IF s.stopped_early THEN "Continue" ELSE "OK",
              data |-> [d EXCEPT
                !.msg_buffer_refs = read,
                !.last_buffered =
                   IF read # << >> THEN read[Len(read)].index ELSE @,
                !.buffered_for_proxying =
                   IF read # << >> THEN route_via_proxy ELSE @,
                !.preceding_opid =
                   IF buffer_empty THEN s.preceding_op ELSE @]]
      ELSE IF s.status # "Incomplete"
        THEN [status |-> s.status, data |-> resetBuffer(d, FALSE, -1)]
        ELSE [status |-> s.status, data |-> d]

\* The outcomes of readFromCache, one for every result of the cache.
readFromCache(d, route_via_proxy) ==
  {readFromCacheGiven(d, route_via_proxy, s) :
     s \in ReadOps(d.last_buffered, fill_size(d))}

\* moveDataAndReset that resets the buffer to its default state.
moveDataAndResetUnanchored(d) ==
  [return_data |-> [NewBufferData EXCEPT
                      !.last_buffered = d.last_buffered,
                      !.preceding_opid = d.preceding_opid,
                      !.msg_buffer_refs = d.msg_buffer_refs,
                      !.buffered_for_proxying = d.buffered_for_proxying],
   data |-> resetBuffer(d, FALSE, -1)]

\* The BufferData moveDataAndReset returns and the one it leaves.
moveDataAndReset(d) ==
  [return_data |-> [NewBufferData EXCEPT
                      !.last_buffered = d.last_buffered,
                      !.preceding_opid = d.preceding_opid,
                      !.msg_buffer_refs = d.msg_buffer_refs,
                      !.buffered_for_proxying = d.buffered_for_proxying],
   data |-> resetBuffer(d, d.buffered_for_proxying, d.last_buffered)]

-----------------------------------------------------------------------------
(* Calls on the BufferData through a LockedBufferHandle.                   *)

\* Bound on the number of requestHandoff calls.
MaxRequests == 2

\* A call of thread t on the peer buffer returns.
Calls(t, name, status) ==
  /\ caller' = t
  /\ op' = name
  /\ ret' = status
  /\ UNCHANGED <<cmeta, fs, atomics>>

SetBufferData(d) ==
  /\ msg_buffer_refs' = d.msg_buffer_refs
  /\ last_buffered' = d.last_buffered
  /\ preceding_opid' = d.preceding_opid
  /\ buffered_for_proxying' = d.buffered_for_proxying
  /\ bytes_buffered' = d.bytes_buffered

\* tryLock hands out a handle whether or not one is out.
TryLockAlwaysGranted(holders) == TRUE

\* data_.tryLock() acquires the mutex: no handle is out.
TryLockGranted(holders) == holders = {}

\* PeerMessageBuffer::tryLock: returns at once, with a valid handle or a
\* null one.
tryLock(t) ==
  /\ ~aborted
  /\ t \notin handles
  /\ IF TryLockGranted(handles)
       THEN handles' = handles \cup {t} /\ Calls(t, "tryLock", "locked")
       ELSE handles' = handles /\ Calls(t, "tryLock", "null")
  /\ UNCHANGED <<data_, handoff_initial_index_, proxy_ops_needed_,
                 handoff_promise_, threads, handed_off, delivered, takes>>

\* The handle of t is valid: t may dereference it.
Holds(t) == ~aborted /\ t \in handles

\* ~LockedBufferHandle: the holder releases the lock, after it has fulfilled
\* the handoff whose index it took.
Unlock(t) ==
  /\ Holds(t)
  /\ taken_index = -1
  /\ handles' = handles \ {t}
  /\ Calls(t, "unlock", "OK")
  /\ UNCHANGED <<data_, handoff_initial_index_, proxy_ops_needed_,
                 handoff_promise_, threads, handed_off, delivered, takes>>

ResetBuffer(t, for_proxy, last_index) ==
  /\ Holds(t)
  /\ SetBufferData(resetBuffer(ThisBufferData, for_proxy, last_index))
  /\ delivered' = << >>
  /\ Calls(t, "resetBuffer", "OK")
  /\ UNCHANGED <<pmb, threads, handed_off, takes>>

AppendMessage(t, new_message) ==
  /\ Holds(t)
  /\ LET r == appendMessage(ThisBufferData, new_message)
     IN  /\ SetBufferData(r.data)
         /\ Calls(t, "appendMessage", r.status)
  /\ UNCHANGED <<pmb, threads, handed_off, delivered, takes>>

ReadFromCache(t, route_via_proxy) ==
  /\ Holds(t)
  /\ \E r \in readFromCache(ThisBufferData, route_via_proxy) :
       /\ SetBufferData(r.data)
       /\ delivered' = IF r.status \in {"OK", "Continue", "Incomplete"}
                         THEN delivered ELSE << >>
       /\ Calls(t, "readFromCache", r.status)
  /\ UNCHANGED <<pmb, threads, handed_off, takes>>

MoveDataAndReset(t) ==
  /\ Holds(t)
  /\ LET r == moveDataAndReset(ThisBufferData)
     IN  /\ SetBufferData(r.data)
         /\ handed_off' = r.return_data
         /\ delivered' = delivered \o Indexes(r.return_data.msg_buffer_refs)
  /\ Calls(t, "moveDataAndReset", "OK")
  /\ UNCHANGED <<pmb, threads, takes>>

-----------------------------------------------------------------------------
\* A PeerMessageBuffer nobody has used yet, beside a created ConsensusMetadata.
InitPeer == InitCreated(CfgBoth, kMinimumTerm)

\* One thread takes the lock and works on the BufferData.
NextBuffer ==
  \/ tryLock("t1")
  \/ Unlock("t1")
  \/ \E for_proxy \in BOOLEAN, last_index \in -1..MaxIndex :
       ResetBuffer("t1", for_proxy, last_index)
  \/ \E new_message \in ReplicateRefPtrs : AppendMessage("t1", new_message)
  \/ \E route_via_proxy \in BOOLEAN : ReadFromCache("t1", route_via_proxy)
  \/ MoveDataAndReset("t1")

SpecBuffer == InitPeer /\ [][NextBuffer]_vars

\* The indices of the messages rise by exactly 1.
RisingByOne(messages) ==
  \A i \in 1..(Len(messages) - 1) :
     messages[i + 1].index = messages[i].index + 1

(* C13: append(msg) succeeds only when msg.index = last_buffered + 1; for  *)
(* any other index it returns IllegalState, and InvalidArgument for a null *)
(* message, leaving messages, last_buffered, preceding_opid,               *)
(* buffered_for_proxying and bytes_buffered unchanged, so the staged       *)
(* message indices always rise by exactly 1.                               *)
C13_AppendInOrder ==
  [][/\ \A new_message \in ReplicateRefPtrs :
          AppendMessage("t1", new_message)
            => /\ ret' = "OK"
                    <=> /\ new_message # nullptr
                        /\ \A id \in new_message :
                              id.index = last_buffered + 1
               /\ new_message = nullptr => ret' = "InvalidArgument"
               /\ ret' \in {"OK", "InvalidArgument", "IllegalState"}
               /\ ret' # "OK" => UNCHANGED data_
     /\ RisingByOne(msg_buffer_refs')]_vars

\* An append with a gap was refused on a buffer that holds two messages.
C13_Witness ==
  /\ op = "appendMessage"
  /\ ret = "IllegalState"
  /\ Len(msg_buffer_refs) = 2
  /\ last_buffered = 2

(* C14: whenever the buffer is non-empty its message indices are exactly   *)
(* the gap-free range [preceding_opid.index + 1, last_buffered].           *)
C14_BufferContiguity ==
  msg_buffer_refs # << >>
    => /\ Indexes(msg_buffer_refs) =
            [i \in 1..Len(msg_buffer_refs) |-> preceding_opid.index + i]
       /\ msg_buffer_refs[Len(msg_buffer_refs)].index = last_buffered

(* C26: bytes_buffered always equals the sum of the encoded sizes of the   *)
(* staged messages, and the staged total never exceeds                     *)
(* consensus_max_batch_size_bytes.                                         *)
C26_BytesBufferedIsSum ==
  /\ bytes_buffered = Len(msg_buffer_refs) * MessageBytes
  /\ Len(msg_buffer_refs) * MessageBytes <= FLAGS_consensus_max_batch_size_bytes

\* The staged messages are still there, in front of those read now.
StagedKept ==
  /\ Len(msg_buffer_refs') >= Len(msg_buffer_refs)
  /\ SubSeq(msg_buffer_refs', 1, Len(msg_buffer_refs)) = msg_buffer_refs

(* C27: read_from_cache resets the buffer only for a cache status that is  *)
(* neither OK nor Incomplete: on Incomplete the whole BufferData is        *)
(* unchanged and Incomplete is returned, on OK (returned as OK, or as      *)
(* Continue when the cache stopped early) the staged messages are kept,    *)
(* and on any other status the buffer is reset.                            *)
C27_ResetOnlyOnError ==
  [][\A route_via_proxy \in BOOLEAN :
       ReadFromCache("t1", route_via_proxy)
         => /\ ret' = "Incomplete" => UNCHANGED data_
            /\ ret' \in {"OK", "Continue"}
                 => StagedKept /\ bytes_buffered' = bytes_buffered
            /\ ret' \notin {"OK", "Continue", "Incomplete"}
                 => /\ msg_buffer_refs' = << >>
                    /\ last_buffered' = -1
                    /\ preceding_opid' = NoOpId
                    /\ ~buffered_for_proxying'
                    /\ bytes_buffered' = 0]_vars

\* The cache answered Incomplete to a buffer that holds messages staged for
\* proxying.
C27_Witness ==
  /\ op = "readFromCache"
  /\ ret = "Incomplete"
  /\ msg_buffer_refs # << >>
  /\ buffered_for_proxying
  /\ preceding_opid # NoOpId

-----------------------------------------------------------------------------
(* PeerMessageBuffer: the handoff.                                         *)

\* getIndexForHandoff reads the slot and leaves the index in it.
TakenSlotKept(initial_index) == initial_index

\* The value exchange(-1) of line 131 leaves in the slot.
TakenSlot(initial_index) == -1

\* getIndexForHandoff returns nullopt whatever the slot held.
IndexForHandoffDropped(initial_index) == -1

\* The optional of lines 133-137, nullopt written -1.
IndexForHandoff(initial_index) == initial_index

\* LockedBufferHandle::getIndexForHandoff, called by the holder that has no
\* index in hand: the index is kept in taken_index, nullopt leaves it -1.
getIndexForHandoff(t) ==
  /\ Holds(t)
  /\ taken_index = -1
  /\ LET initial_index == handoff_initial_index_
         returned == IndexForHandoff(initial_index)
     IN  /\ handoff_initial_index_' = TakenSlot(initial_index)
         /\ taken_index' = returned
         /\ takes' = IF returned = -1 THEN takes ELSE takes + 1
         /\ Calls(t, "getIndexForHandoff",
                  IF returned = -1 THEN "nullopt" ELSE "index")
  /\ UNCHANGED <<data_, handles, proxy_ops_needed_, handoff_promise_,
                 consumer, aborted, handed_off, delivered>>

\* set_value also throws when nobody holds the future any more.
SetValueThrowsUnobserved(promise) ==
  promise.satisfied \/ consumer.future = "dropped"

\* std::promise::set_value (line 122) throws when the promise already has a
\* value.
SetValueThrows(promise) == promise.satisfied

\* PeerMessageBuffer::LockedBufferHandle::proxyRequirementSatisfied without
\* the comparison.
proxyRequirementIgnored == TRUE

proxyRequirementSatisfied == proxy_ops_needed_ = buffered_for_proxying

\* LockedBufferHandle::fulfillPromiseWithBuffer(s), called by the holder for
\* the index it took. The argument moveDataAndReset() is evaluated before
\* set_value, which throws std::future_error when the promise already has a
\* value; the exception ends the process unless a caller catches it.
fulfillPromiseWithBuffer(t, s) ==
  /\ Holds(t)
  /\ taken_index # -1
  /\ LET r == moveDataAndReset(ThisBufferData)
     IN  /\ SetBufferData(r.data)
         /\ handed_off' = r.return_data
         /\ IF SetValueThrows(handoff_promise_)
              THEN /\ UNCHANGED <<handoff_promise_, delivered>>
                   /\ aborted' \in BOOLEAN
                   /\ Calls(t, "fulfillPromiseWithBuffer", "future_error")
              ELSE /\ handoff_promise_' =
                        [handoff_promise_ EXCEPT !.satisfied = TRUE,
                                                 !.status = s]
                   /\ delivered' =
                        delivered \o Indexes(r.return_data.msg_buffer_refs)
                   /\ aborted' = aborted
                   /\ Calls(t, "fulfillPromiseWithBuffer", "OK")
  /\ taken_index' = -1
  /\ UNCHANGED <<handles, handoff_initial_index_, proxy_ops_needed_,
                 consumer, takes>>

\* The promise of a requestHandoff call is still without a value.
Outstanding ==
  handoff_promise_.request > 0 /\ ~handoff_promise_.satisfied

\* requestHandoff, lines 147-148: the promise is replaced and the proxy
\* requirement recorded, outside the try-lock.
requestHandoff_reset(index, proxy_ops_needed) ==
  /\ ~aborted
  /\ consumer.pc = "idle"
  /\ handoff_promise_.request < MaxRequests
  /\ handoff_promise_' = [request |-> handoff_promise_.request + 1,
                          satisfied |-> FALSE, status |-> ""]
  /\ proxy_ops_needed_' = proxy_ops_needed
  /\ consumer' = [pc |-> "exchange", index |-> index,
                  overlapping |-> Outstanding, future |-> "none"]
  /\ UNCHANGED <<cmeta, fs, atomics, op, ret, caller>>
  /\ UNCHANGED <<data_, handles, handoff_initial_index_, taken_index,
                 aborted, handed_off, delivered, takes>>

\* requestHandoff, lines 149-152: the exchange, the DCHECK_EQ as it behaves
\* where it is compiled in, and the future.
requestHandoff_exchange ==
  /\ ~aborted
  /\ consumer.pc = "exchange"
  /\ LET buffer_initial_index == handoff_initial_index_
     IN  /\ handoff_initial_index_' = consumer.index
         /\ aborted' = (buffer_initial_index # -1)
         /\ Calls(Consumer, "requestHandoff",
                  IF buffer_initial_index # -1 THEN "DCHECK_EQ failed"
                                               ELSE "future")
  /\ takes' = 0
  /\ consumer' = [pc |-> "idle", index |-> -1, overlapping |-> FALSE,
                  future |-> "held"]
  /\ UNCHANGED <<data_, handles, proxy_ops_needed_, handoff_promise_,
                 taken_index, handed_off, delivered>>

\* The steps of the producers: a producer that took an index may discard
\* the buffer to start at that index, fills the buffer and fulfills.
Produce ==
  \/ \E t \in Producers : tryLock(t)
  \/ \E t \in Producers : Unlock(t)
  \/ \E t \in Producers : getIndexForHandoff(t)
  \/ \E t \in Producers : fulfillPromiseWithBuffer(t, "OK")
  \/ \E t \in Producers :
       taken_index # -1 /\ ResetBuffer(t, proxy_ops_needed_, taken_index - 1)
  \/ \E t \in Producers, new_message \in ReplicateRefPtrs :
       AppendMessage(t, new_message)
  \/ \E t \in Producers : ReadFromCache(t, proxy_ops_needed_)

\* Two producers and the consumer, which may ask again at any time, for
\* either of the first two indexes and without proxying.
NextHandoff ==
  \/ Produce
  \/ \E index \in {1, 2} : requestHandoff_reset(index, FALSE)
  \/ requestHandoff_exchange

SpecHandoff == InitPeer /\ [][NextHandoff]_vars

\* Two producers and a consumer that asks again only once the promise of its
\* last request has a value.
NextProtocol ==
  \/ Produce
  \/ \E index \in 1..MaxIndex, proxy_ops_needed \in BOOLEAN :
       ~Outstanding /\ requestHandoff_reset(index, proxy_ops_needed)
  \/ requestHandoff_exchange

SpecProtocol == InitPeer /\ [][NextProtocol]_vars

\* The producer of the handoff protocol. Step 4: the holder took an index
\* and the buffer does not meet the proxy requirement of the request.
DiscardOnMismatch(t) ==
  /\ taken_index # -1
  /\ ~proxyRequirementSatisfied
  /\ ResetBuffer(t, proxy_ops_needed_, taken_index - 1)

\* Step 3 without a posted request: the holder may update the buffer, here
\* by pointing it at the start of the log.
PositionBuffer(t, for_proxy, last_index) ==
  /\ taken_index = -1
  /\ ResetBuffer(t, for_proxy, last_index)

\* Step 5: the contents meet the requirement and are not empty.
FulfillOK(t) ==
  /\ proxyRequirementSatisfied
  /\ msg_buffer_refs # << >>
  /\ fulfillPromiseWithBuffer(t, "OK")

\* Step 5: the holder's read from the cache returned an error.
FulfillError(t) ==
  /\ op = "readFromCache"
  /\ caller = t
  /\ ret \notin {"OK", "Continue", "Incomplete"}
  /\ fulfillPromiseWithBuffer(t, ret)

\* The sender's deadline passes: it drops the future of the request it
\* posted. Nothing of the PeerMessageBuffer is touched.
dropFuture ==
  /\ ~aborted
  /\ consumer.pc = "idle"
  /\ consumer.future = "held"
  /\ Outstanding
  /\ consumer' = [consumer EXCEPT !.future = "dropped"]
  /\ UNCHANGED <<cmeta, fs, atomics, op, ret, caller>>
  /\ UNCHANGED <<data_, pmb, taken_index, aborted, handed_off, delivered,
                 takes>>

\* Producers and consumer both follow the handoff protocol; the consumer asks
\* for either of the first two indexes and may time out.
NextRendezvous ==
  \/ \E t \in Producers : tryLock(t)
  \/ \E t \in Producers : Unlock(t)
  \/ \E t \in Producers : getIndexForHandoff(t)
  \/ \E t \in Producers : DiscardOnMismatch(t)
  \/ \E t \in Producers, for_proxy \in BOOLEAN : PositionBuffer(t, for_proxy, 0)
  \/ \E t \in Producers, new_message \in ReplicateRefPtrs :
       AppendMessage(t, new_message)
  \/ \E t \in Producers, route_via_proxy \in BOOLEAN :
       ReadFromCache(t, route_via_proxy)
  \/ \E t \in Producers : FulfillOK(t)
  \/ \E t \in Producers : FulfillError(t)
  \/ \E index \in {1, 2}, proxy_ops_needed \in BOOLEAN :
       ~Outstanding /\ requestHandoff_reset(index, proxy_ops_needed)
  \/ requestHandoff_exchange
  \/ dropFuture

SpecRendezvous == InitPeer /\ [][NextRendezvous]_vars

(* C15: at most one handoff is outstanding: a request_handoff issued when  *)
(* a previous request_handoff has not yet been fulfilled trips the         *)
(* assertion, in every interleaving with the producers' try_lock,          *)
(* index_for_handoff and fulfill.                                          *)
C15_OverlappingRequestAsserts ==
  [][(/\ consumer.pc = "exchange"
      /\ consumer'.pc = "idle"
      /\ consumer.overlapping)
       => aborted']_vars

(* C16: for each request_handoff(index) at most one call to                *)
(* index_for_handoff returns that index and every other call returns       *)
(* empty; after a call that returned an index the slot holds -1 until the  *)
(* next request_handoff.                                                   *)
C16_IndexTakenOnce ==
  [][/\ takes' <= 1
     /\ \A t \in Producers :
          getIndexForHandoff(t)
            => /\ ret' = "index" <=> handoff_initial_index_ # -1
               /\ ret' = "index" => taken_index' = handoff_initial_index_
               /\ ret' \in {"index", "nullopt"}
               /\ handoff_initial_index_' = -1
     /\ (handoff_initial_index_ = -1 /\ handoff_initial_index_' # -1)
          => op' = "requestHandoff"]_vars

\* The second producer found the slot empty after the first took the index.
C16_Witness ==
  /\ op = "getIndexForHandoff"
  /\ ret = "nullopt"
  /\ caller = "t2"
  /\ takes = 1
  /\ handoff_promise_.satisfied

(* C17: at any time at most one caller holds a valid locked handle; a      *)
(* try_lock issued while a handle is held returns at once without a        *)
(* handle, and the BufferData fields are written only by the holder.       *)
C17_TryLockExcludes ==
  [][/\ Cardinality(handles') <= 1
     /\ \A t \in Producers :
          tryLock(t) => /\ ret' = "locked" <=> handles = {}
                        /\ ret' = "null" <=> handles # {}
                        /\ ret' = "null" => handles' = handles
     /\ (~aborted /\ handles # {})
          => \A t \in Producers \ handles : ENABLED tryLock(t)
     /\ data_' # data_ => handles = {caller'}]_vars

\* The second producer was turned away while the first held the handle and
\* had messages staged.
C17_Witness ==
  /\ op = "tryLock"
  /\ ret = "null"
  /\ caller = "t2"
  /\ handles = {"t1"}
  /\ msg_buffer_refs # << >>

\* The numbers of the sequence rise by exactly 1.
Consecutive(indexes) ==
  \A i \in 1..(Len(indexes) - 1) : indexes[i + 1] = indexes[i] + 1

C18_AppendAfterHandoff ==
  /\ op = "appendMessage"
  /\ ret = "OK"
  /\ msg_buffer_refs = <<OpId(handed_off.last_buffered + 1)>>
  /\ delivered # << >>

\* The lock holder fulfills in this step: only the fulfill gives up the
\* index it took.
Fulfills == taken_index # -1 /\ taken_index' = -1

(* C28: under the protocol every handoff fulfilled with status OK delivers *)
(* data whose buffered_for_proxying equals the proxy_ops_needed of the     *)
(* request; the reset a producer does on a mismatch leaves the buffer      *)
(* empty at requested_index - 1 with the requested routing, and the next   *)
(* message staged after it has the requested index.                        *)
C28_ProxyRequirementMet ==
  [][/\ (Fulfills /\ handoff_promise_'.status = "OK")
          => handed_off'.buffered_for_proxying = proxy_ops_needed_
     /\ \A t \in Producers :
          DiscardOnMismatch(t)
            => /\ msg_buffer_refs' = << >>
               /\ last_buffered' = taken_index - 1
               /\ buffered_for_proxying' = proxy_ops_needed_
     /\ (/\ taken_index # -1
         /\ msg_buffer_refs = << >>
         /\ last_buffered = taken_index - 1
         /\ msg_buffer_refs' # << >>)
          => msg_buffer_refs'[1].index = taken_index]_vars

\* The second request asked for proxied ops from index 2; the buffer was
\* discarded for it and the handoff delivered proxied ops from index 2 on.
C28_Witness ==
  /\ op = "fulfillPromiseWithBuffer"
  /\ handoff_promise_.request = 2
  /\ handoff_promise_.status = "OK"
  /\ proxy_ops_needed_
  /\ handed_off.buffered_for_proxying
  /\ handed_off.msg_buffer_refs # << >>
  /\ handed_off.msg_buffer_refs[1].index = 2
  /\ delivered = Indexes(handed_off.msg_buffer_refs)

(* C29: after the consumer dropped the future of a posted handoff the slot *)
(* keeps the posted index until a producer takes it; the producer that     *)
(* calls index_for_handoff next reads it, its fulfill sets the orphaned    *)
(* promise without an error and leaves -1 in the slot, and a new           *)
(* request_handoff passes its assertion.                                   *)
C29_OrphanFulfilled ==
  [][/\ (consumer'.future = "dropped" /\ takes' = 0)
          => handoff_initial_index_' # -1
     /\ (consumer.future = "held" /\ consumer'.future = "dropped")
          => UNCHANGED <<pmb, data_>>
     /\ \A t \in Producers :
          (getIndexForHandoff(t) /\ consumer.future = "dropped" /\ takes = 0)
            => /\ ret' = "index"
               /\ taken_index' = handoff_initial_index_
               /\ taken_index' # -1
     /\ (consumer.future = "dropped" /\ Fulfills)
          => /\ ret' = "OK"
             /\ handoff_promise_'.satisfied
             /\ ~aborted'
             /\ handoff_initial_index_' = -1
     /\ (consumer.pc = "exchange" /\ consumer'.pc = "idle")
          => ret' = "future" /\ ~aborted']_vars

\* A producer fulfilled a promise whose future the consumer had dropped.
C29_Witness ==
  /\ consumer.future = "dropped"
  /\ op = "fulfillPromiseWithBuffer"
  /\ ret = "OK"
  /\ handoff_promise_.satisfied
  /\ handoff_initial_index_ = -1
  /\ handed_off.msg_buffer_refs # << >>

(* C30: between a producer taking the index and its fulfill no             *)
(* request_handoff overwrites handoff_promise or proxy_ops_needed, in any  *)
(* interleaving of the consumer and the producers.                         *)
C30_NoOverwriteBeforeFulfill ==
  [][(taken_index # -1 /\ ~Fulfills)
       => /\ handoff_promise_' = handoff_promise_
          /\ proxy_ops_needed_' = proxy_ops_needed_]_vars

-----------------------------------------------------------------------------
\* The handoff protocol with its scheduling. The producers keep trying the
\* lock; a producer that acquired it reads the index (step 3), discards on
\* a mismatch (step 4), reads from the cache with the routing of the
\* request and fulfills (step 5); the cache ends up giving the ops that
\* follow last_buffered when there are any.
Stage(t) ==
  /\ taken_index # -1
  /\ ReadFromCache(t, proxy_ops_needed_)
  /\ ret' \in {"OK", "Continue"}
  /\ msg_buffer_refs' # << >>

NextLive ==
  \/ \E t \in Producers : tryLock(t)
  \/ \E t \in Producers : Unlock(t)
  \/ \E t \in Producers : getIndexForHandoff(t)
  \/ \E t \in Producers : DiscardOnMismatch(t)
  \/ \E t \in Producers : PositionBuffer(t, FALSE, 0)
  \/ \E t \in Producers : AppendMessage(t, {OpId(1)})
  \/ \E t \in Producers : ReadFromCache(t, proxy_ops_needed_)
  \/ \E t \in Producers : FulfillOK(t)
  \/ \E t \in Producers : FulfillError(t)
  \/ \E proxy_ops_needed \in BOOLEAN :
       ~Outstanding /\ requestHandoff_reset(1, proxy_ops_needed)
  \/ requestHandoff_exchange

Fairness ==
  /\ WF_vars(\E t \in Producers : tryLock(t))
  /\ SF_vars(\E t \in Producers : getIndexForHandoff(t) /\ ret' = "index")
  /\ WF_vars(\E t \in Producers : DiscardOnMismatch(t))
  /\ WF_vars(\E t \in Producers : Stage(t))
  /\ SF_vars(\E t \in Producers : FulfillOK(t) \/ FulfillError(t))

SpecLive == InitPeer /\ [][NextLive]_vars /\ Fairness

\* The log holds no op after last_buffered for the producer that took the
\* index: the buffer is empty with the requested routing, and stays so.
OpsMissing ==
  /\ taken_index # -1
  /\ msg_buffer_refs = << >>
  /\ proxyRequirementSatisfied
  /\ last_buffered \notin 0..(MaxIndex - 1)

\* The request is posted: requestHandoff returned and its promise has no
\* value yet.
Posted == Outstanding /\ consumer.pc = "idle" /\ ~aborted

-----------------------------------------------------------------------------
(* AtomicInt<int32_t> and AtomicBool as atomic-test.cc uses them.          *)

\* numeric_limits<int32_t>::max() and ::min().
max_ == 2147483647

min_ == -max_ - 1

\* The values the tests store.
IntValues == {min_, 0, 5, 10, 42, max_}

\* CompareAndSet that stores the new value whatever the old one is.
CompareAndSetBlind(value, expected_val, new_val) ==
  [result |-> value = expected_val, value |-> new_val]

\* Each operation gives its result and the value it leaves.
CompareAndSet(value, expected_val, new_val) ==
  [result |-> value = expected_val,
   value |-> IF value = expected_val THEN new_val ELSE value]

CompareAndSwap(value, expected_val, new_val) ==
  [result |-> value,
   value |-> IF value = expected_val THEN new_val ELSE value]

Exchange(value, new_val) == [result |-> value, value |-> new_val]

\* TYPED_TEST(AtomicIntTest, SetSwapExchange): every EXPECT of the body.
AtomicIntTest_SetSwapExchange ==
  LET s1 == CompareAndSet(0, 0, 5)
      s2 == CompareAndSet(s1.value, 0, 10)
      s3 == CompareAndSwap(s2.value, 5, max_)
      s4 == CompareAndSwap(s3.value, 42, 42)
      s5 == CompareAndSwap(s4.value, max_, min_)
      s6 == Exchange(s5.value, max_)
  IN  /\ s1.result
      /\ s1.value = 5
      /\ ~s2.result
      /\ s3.result = 5
      /\ s4.result = max_
      /\ s5.result = max_
      /\ s6.result = min_
      /\ s6.value = max_

\* TEST(Atomic, AtomicBool): every EXPECT from the first CompareAndSet on.
Atomic_AtomicBool ==
  LET s1 == CompareAndSet(TRUE, TRUE, FALSE)
      s2 == CompareAndSet(s1.value, TRUE, FALSE)
      s3 == CompareAndSwap(s2.value, FALSE, TRUE)
      s4 == Exchange(s3.value, FALSE)
  IN  /\ s1.result
      /\ ~s1.value
      /\ ~s2.result
      /\ ~s3.result
      /\ s3.value
      /\ s4.result
      /\ ~s4.value

\* A call on the atomics returns.
AtomicReturns(name, result) ==
  /\ op' = name
  /\ ret' = result
  /\ UNCHANGED <<cmeta, fs, data_, handoff>>

i_Store(new_val) ==
  /\ atomic_i' = new_val
  /\ atomic_b' = atomic_b
  /\ AtomicReturns("i.Store", "void")

i_CompareAndSet(expected_val, new_val) ==
  LET s == CompareAndSet(atomic_i, expected_val, new_val)
  IN  /\ atomic_i' = s.value
      /\ atomic_b' = atomic_b
      /\ AtomicReturns("i.CompareAndSet", s.result)

i_CompareAndSwap(expected_val, new_val) ==
  LET s == CompareAndSwap(atomic_i, expected_val, new_val)
  IN  /\ atomic_i' = s.value
      /\ atomic_b' = atomic_b
      /\ AtomicReturns("i.CompareAndSwap", s.result)

i_Exchange(new_val) ==
  LET s == Exchange(atomic_i, new_val)
  IN  /\ atomic_i' = s.value
      /\ atomic_b' = atomic_b
      /\ AtomicReturns("i.Exchange", s.result)

b_Store(new_val) ==
  /\ atomic_b' = new_val
  /\ atomic_i' = atomic_i
  /\ AtomicReturns("b.Store", "void")

b_CompareAndSet(expected_val, new_val) ==
  LET s == CompareAndSet(atomic_b, expected_val, new_val)
  IN  /\ atomic_b' = s.value
      /\ atomic_i' = atomic_i
      /\ AtomicReturns("b.CompareAndSet", s.result)

b_CompareAndSwap(expected_val, new_val) ==
  LET s == CompareAndSwap(atomic_b, expected_val, new_val)
  IN  /\ atomic_b' = s.value
      /\ atomic_i' = atomic_i
      /\ AtomicReturns("b.CompareAndSwap", s.result)

b_Exchange(new_val) ==
  LET s == Exchange(atomic_b, new_val)
  IN  /\ atomic_b' = s.value
      /\ atomic_i' = atomic_i
      /\ AtomicReturns("b.Exchange", s.result)

\* Any sequence of the calls the two tests make, over the values they use.
NextAtomic ==
  \/ \E v \in IntValues : i_Store(v)
  \/ \E e \in IntValues, v \in IntValues : i_CompareAndSet(e, v)
  \/ \E e \in IntValues, v \in IntValues : i_CompareAndSwap(e, v)
  \/ \E v \in IntValues : i_Exchange(v)
  \/ \E v \in BOOLEAN : b_Store(v)
  \/ \E e \in BOOLEAN, v \in BOOLEAN : b_CompareAndSet(e, v)
  \/ \E e \in BOOLEAN, v \in BOOLEAN : b_CompareAndSwap(e, v)
  \/ \E v \in BOOLEAN : b_Exchange(v)

SpecAtomic == InitPeer /\ [][NextAtomic]_vars

(* C19: CompareAndSet(expected, desired) returns true and stores desired   *)
(* exactly when the current value equals expected, and otherwise returns   *)
(* false leaving the value unchanged; Exchange(v) returns the value held   *)
(* before the call and leaves v stored. The expectations of the two tests  *)
(* are instances.                                                          *)
C19_CompareAndSetExchange ==
  [][/\ \A e \in IntValues, v \in IntValues :
          i_CompareAndSet(e, v)
            => IF atomic_i = e THEN ret' = TRUE /\ atomic_i' = v
                               ELSE ret' = FALSE /\ atomic_i' = atomic_i
     /\ \A v \in IntValues :
          i_Exchange(v) => ret' = atomic_i /\ atomic_i' = v
     /\ \A e \in BOOLEAN, v \in BOOLEAN :
          b_CompareAndSet(e, v)
            => IF atomic_b = e THEN ret' = TRUE /\ atomic_b' = v
                               ELSE ret' = FALSE /\ atomic_b' = atomic_b
     /\ \A v \in BOOLEAN :
          b_Exchange(v) => ret' = atomic_b /\ atomic_b' = v
     /\ AtomicIntTest_SetSwapExchange
     /\ Atomic_AtomicBool]_vars

\* The end of SetSwapExchange: Exchange(max_) returned min_.
C19_Witness ==
  /\ op = "i.Exchange"
  /\ ret = min_
  /\ atomic_i = max_

====
